---------------------------- MODULE Spec2Model ----------------------------
(***************************************************************************)
(* Model of the synchronisation-confirmation code of the core registry     *)
(* API client: src/src/registry.js (waitForRegistryDataSync, getHomeOrg,   *)
(* setLastProcessedHeight, commitStagingData,                              *)
(* confirmTokenRegistrationOnWarehouse), src/src/token-driver.js           *)
(* (waitForTokenizationTransactionConfirmation) and                        *)
(* src/src/utils/api-utils.js (handleApiRequestWithRetries).               *)
(*                                                                         *)
(* Each task is one logical call chain.  An action is the code that runs   *)
(* between two await points of an async function; the events that resume   *)
(* a suspended call (timers, HTTP responses, promise resolutions) may      *)
(* interleave between tasks in any order.  The bare identifiers the class  *)
(* methods use (waitForRegistryDataSync, getHomeOrg, registryUri, ...) are *)
(* read as the members of the same name.                                   *)
(***************************************************************************)
EXTENDS Integers, Sequences, FiniteSets, TLC

\* ---------------------------------------------------------------- bounds
NumTasks == 2      \* concurrent call chains
MaxIter  == 3      \* loop iterations of a run examined on its own
GateIter == 1      \* loop iterations of a run among concurrent callers
WriteIter == 1     \* loop iterations of a run inside a write operation
MaxCalls == 2      \* calls of waitForRegistryDataSync over all tasks
LiveIter == 2      \* loop iterations of a run followed to its end
MaxBudget == 4     \* largest maxRetries handleApiRequestWithRetries is given

Tasks == 1..NumTasks

\* ---------------------------------------------------- the program's constants
\* `if (retry > 60) return false` of confirmTokenRegistrationOnWarehouse
registryRetryLimit == 60

\* `if (retry > 60)` of waitForTokenizationTransactionConfirmation
tokenRetryLimit == 60

\* ------------------------------------------------------- external values
\* constants.emptySingletonHash (registry.js:482), the hash of an empty tree
emptySingletonHash == "EMPTY"

Hashes == {emptySingletonHash, "h1"}

\* what `homeOrg` holds when getHomeOrg() returned null
Null == [orgUid |-> "null", isHome |-> FALSE, registryHash |-> "", orgHash |-> ""]

\* an organisation of the /v1/organizations response body
Org(uid, home, rh, oh) ==
    [orgUid |-> uid, isHome |-> home, registryHash |-> rh, orgHash |-> oh]

OtherOrg == Org("other", FALSE, "h1", "h1")

\* the response bodies of GET /v1/organizations: a set of organisations
Bodies ==
    {{OtherOrg}, {OtherOrg, Org("PENDING", TRUE, "", "")}}
    \cup {{OtherOrg, Org("home", TRUE, rh, oh)} : rh \in Hashes, oh \in Hashes}

\* status 0 stands for a request that failed without a response
Responses ==
    {[status |-> s, body |-> {}] : s \in {0, 403, 500}}
    \cup {[status |-> 200, body |-> b] : b \in Bodies}

\* datalayer.getRoot results; ok = FALSE is a call that throws
Roots ==
    {[ok |-> TRUE, confirmed |-> c, hash |-> h] : c \in BOOLEAN, h \in Hashes}
    \cup {[ok |-> FALSE, confirmed |-> FALSE, hash |-> ""]}

NoRoot == [ok |-> FALSE, confirmed |-> FALSE, hash |-> "unfetched"]

\* the state of the three sources during one poll iteration
SourceStates ==
    [organizations : Responses, registryRoot : Roots, orgRoot : Roots]


\* A source state in which the parts no fetch of the iteration can reach (the
\* roots when there is no home organisation, the organisation root when the
\* registry root is not confirmed) have one fixed value.
Settled == [ok |-> TRUE, confirmed |-> TRUE, hash |-> "h1"]

Canonical(s) ==
    LET homes == {o \in s.organizations.body : o.isHome /\ o.orgUid # "PENDING"}
    IN  /\ (s.organizations.status # 200 \/ homes = {})
              => s.registryRoot = Settled /\ s.orgRoot = Settled
        /\ ~(s.registryRoot.ok /\ s.registryRoot.confirmed)
              => s.orgRoot = Settled

\* the source states a single run is examined under
WatcherSources == {s \in SourceStates : Canonical(s)}

Src(rh, oh, reg, org) ==
    [organizations |-> [status |-> 200,
                        body |-> {OtherOrg, Org("home", TRUE, rh, oh)}],
     registryRoot |-> reg, orgRoot |-> org]

Root(c, h) == [ok |-> TRUE, confirmed |-> c, hash |-> h]
Fault == [ok |-> FALSE, confirmed |-> FALSE, hash |-> ""]

\* the source states concurrent callers are examined under: converged,
\* converged on an empty registry, no home organisation, a failing ledger node
GateSources ==
    {Src("h1", "h1", Root(TRUE, "h1"), Root(TRUE, "h1")),
     Src(emptySingletonHash, "h1", Root(TRUE, emptySingletonHash), Root(TRUE, "h1")),
     [organizations |-> [status |-> 500, body |-> {}],
      registryRoot |-> Settled, orgRoot |-> Settled],
     Src("h1", "h1", Fault, Settled)}

\* the source states write operations are examined under: converged, no
\* home organisation, a failing ledger node
WriteSources ==
    {Src("h1", "h1", Root(TRUE, "h1"), Root(TRUE, "h1")),
     [organizations |-> [status |-> 500, body |-> {}],
      registryRoot |-> Settled, orgRoot |-> Settled],
     Src("h1", "h1", Fault, Settled)}

\* the source states callers are examined under while the environment
\* changes: converged, no home organisation
EnvSources ==
    {Src("h1", "h1", Root(TRUE, "h1"), Root(TRUE, "h1")),
     [organizations |-> [status |-> 500, body |-> {}],
      registryRoot |-> Settled, orgRoot |-> Settled]}

\* the source states the progress of callers is examined under: converged,
\* no home organisation, converged on an empty registry
LiveSources ==
    {Src("h1", "h1", Root(TRUE, "h1"), Root(TRUE, "h1")),
     [organizations |-> [status |-> 500, body |-> {}],
      registryRoot |-> Settled, orgRoot |-> Settled],
     Src(emptySingletonHash, "h1", Root(TRUE, emptySingletonHash), Root(TRUE, "h1"))}

\* the source states of each universe
SourcesOf(name) ==
    CASE name = "gate" -> GateSources
      [] name = "writes" -> WriteSources
      [] name = "env" -> EnvSources
      [] name = "live" -> LiveSources
      [] OTHER -> WatcherSources

InitialSources ==
    [organizations |-> [status |-> 200,
                        body |-> {OtherOrg, Org("home", TRUE, "h1", "h1")}],
     registryRoot |-> [ok |-> TRUE, confirmed |-> TRUE, hash |-> "h1"],
     orgRoot |-> [ok |-> TRUE, confirmed |-> TRUE, hash |-> "h1"]]

\* ------------------------------------------------------------------ state
VARIABLES
    testMode,                \* process.env.NODE_ENV === "test"
    mutexLocked,             \* the module-level mutex (registry.js:8) is held
    waiters,                 \* tasks whose mutex.waitForUnlock() promise is pending
    universe,                \* which states the sources may be in, and how
                             \* many iterations a run is followed for
    sources,                 \* what the sources answer in the current poll iteration
    op,                      \* the operation each task is executing
    opc,                     \* each task's position in its write operation
    ret,                     \* what each task's operation returned
    syncs,                   \* how the sync waits of each task's operation ended
    wrote,                   \* the task's operation has sent its write
    pc,                      \* each task's position in waitForRegistryDataSync
    options,                 \* the options argument of each task's call
    isFirstSyncAfterFailure, \* registry.js:438
    homeOrg,                 \* registry.js:461
    onChainRegistryRoot,     \* registry.js:471
    onChainOrgRoot,          \* registry.js:506
    outcome,                 \* how each task's call ended
    arrival,                 \* the gate as each task's call found it
    log,                     \* what each task's call did and what it was shown
    runs,                    \* LedgerSyncWatcher runs over all tasks
    watching,                \* the confirmation watcher that was called
    wpc,                     \* the position of the watcher's innermost call
    retry,                   \* the retry argument of the innermost call
    result,                  \* what the watcher's call returned
    wlog,                    \* what the watcher's call did and was answered
    rpc,                     \* the position of handleApiRequestWithRetries
    retries,                 \* api-utils.js:11
    maxRetries,              \* the maxRetries argument of the call
    rlog                     \* what the call did and how it ended

gateVars  == <<mutexLocked, waiters>>
localVars == <<homeOrg, onChainRegistryRoot, onChainOrgRoot>>
opVars    == <<op, opc, ret, syncs, wrote>>
watchVars == <<watching, wpc, retry, result, wlog>>
retryVars == <<rpc, retries, maxRetries, rlog>>
vars == <<testMode, universe, op, opc, ret, syncs, wrote,
          mutexLocked, waiters, sources, pc, options,
          isFirstSyncAfterFailure, homeOrg, onChainRegistryRoot,
          onChainOrgRoot, outcome, arrival, log, runs,
          watching, wpc, retry, result, wlog,
          rpc, retries, maxRetries, rlog>>

\* ----------------------------------------------- what the sources are showing
\* the registry metadata source has a home organisation to return
HasHome(s) ==
    /\ s.organizations.status = 200
    /\ \E o \in s.organizations.body : o.isHome /\ o.orgUid # "PENDING"

HomeOf(s) == CHOOSE o \in s.organizations.body : o.isHome

RegistryConfirmed(s) == s.registryRoot.ok /\ s.registryRoot.confirmed
OrgConfirmed(s)      == s.orgRoot.ok /\ s.orgRoot.confirmed

\* the ledger, and the registry's record of it, agree on both trees
Converged(s) ==
    /\ HasHome(s)
    /\ RegistryConfirmed(s) /\ s.registryRoot.hash = HomeOf(s).registryHash
    /\ OrgConfirmed(s)      /\ s.orgRoot.hash = HomeOf(s).orgHash

\* a confirmed registry tree with no content
EmptyRegistry(s) ==
    HasHome(s) /\ RegistryConfirmed(s) /\ s.registryRoot.hash = emptySingletonHash

\* home organisation present, both roots confirmed, registry hash matching
Tame(s) ==
    /\ HasHome(s)
    /\ RegistryConfirmed(s) /\ s.registryRoot.hash = HomeOf(s).registryHash
    /\ OrgConfirmed(s)

NewLog ==
    [iterations |-> 0, sleeps |-> 0, warnings |-> 0, notices |-> 0,
     homeFetches |-> 0, registryFetches |-> 0, orgFetches |-> 0,
     absent |-> 0, otherBad |-> 0, tame |-> TRUE, convergedAt |-> 0,
     emptyAt |-> 0, rootFetchesWhileAbsent |-> 0]

\* the log of a run once its next iteration has been shown the sources s
Shown(l, s) ==
    [l EXCEPT
        !.sleeps = @ + 1,
        !.absent = IF HasHome(s) THEN @ ELSE @ + 1,
        !.otherBad = IF HasHome(s) /\ ~Converged(s) THEN @ + 1 ELSE @,
        !.tame = @ /\ Tame(s),
        !.convergedAt = IF @ = 0 /\ Converged(s) THEN l.iterations ELSE @,
        !.emptyAt = IF @ = 0 /\ EmptyRegistry(s) THEN l.iterations ELSE @]

\* ----------------------------------------------------------- the code's tests
\* getHomeOrg: every failure, a missing home organisation (the TypeError of
\* line 264 on null) and a PENDING one all end in null
\* a variant that hands a PENDING home organisation to its caller
getHomeOrg_KeepsPending(response) ==
    IF response.status # 200
    THEN Null
    ELSE LET homes == {org \in response.body : org.isHome}
         IN  IF homes = {} THEN Null ELSE CHOOSE org \in homes : TRUE

getHomeOrg(response) ==
    IF response.status # 200
    THEN Null
    ELSE LET homes == {org \in response.body : org.isHome}
         IN  IF homes = {}
             THEN Null
             ELSE LET found == CHOOSE org \in homes : TRUE
                  IN  IF found.orgUid = "PENDING" THEN Null ELSE found

\* an empty-registry test that ignores the caller's option
ThrowsOnEmptyRegistry_Always(root, opts) == root.hash = emptySingletonHash

\* a check that never sees the mutex held
isLocked_Never == FALSE

\* mutex.isLocked()
isLocked == mutexLocked

\* the options a caller may pass; NoOptions is {} (the default argument)
NoOptions == [k \in {} |-> FALSE]
OptionValues == [throwOnEmptyRegistry : BOOLEAN] \cup {NoOptions}

\* the spread the other way round, { ...options, throwOnEmptyRegistry: false }
Opts_DefaultLast(o) == [k \in {"throwOnEmptyRegistry"} |-> FALSE]

\* { throwOnEmptyRegistry: false, ...options }
Opts(o) ==
    [k \in {"throwOnEmptyRegistry"} |-> IF k \in DOMAIN o THEN o[k] ELSE FALSE]

\* an empty-registry test that does not look at the hash
ThrowsOnEmptyRegistry_AnyHash(root, opts) == opts.throwOnEmptyRegistry

\* lines 481-488, the test made on a confirmed registry root
ThrowsOnEmptyRegistry(root, opts) ==
    root.hash = emptySingletonHash /\ opts.throwOnEmptyRegistry

\* comparisons that are never made
RegistryOutOfSync_Never(root, home) == FALSE
OrgOutOfSync_Never(root, home) == FALSE

RegistryOutOfSync(root, home) == root.hash # home.registryHash

OrgOutOfSync(root, home) == root.hash # home.orgHash

\* a release after the loop instead of in a finally clause: skipped by a throw
HeldAfter_NoFinally(exit) == exit = "throw"

\* whether the mutex is still held once the try block was left in `exit`
\* ("break" or "throw"): the finally clause releases it either way
HeldAfter(exit) == FALSE

\* ------------------------------------------- the confirmation watchers' tests
\* the retry arguments a watcher is called with; the default is 0
RetryArgs == {0, 1, registryRetryLimit, registryRetryLimit + 1}

\* what a poll is answered: the request throws (ok = FALSE), or a response
\* arrives with a status and the confirmed flag of its body
PollAnswers ==
    {[ok |-> FALSE, status |-> 0, confirmed |-> FALSE],
     [ok |-> TRUE, status |-> 403, confirmed |-> FALSE],
     [ok |-> TRUE, status |-> 200, confirmed |-> FALSE],
     [ok |-> TRUE, status |-> 200, confirmed |-> TRUE]}

NewWatchLog ==
    [retry0 |-> 0, polls |-> 0, sleeps |-> 0,
     confirmedAt |-> 0, errorAt |-> 0, forbiddenAt |-> 0]

\* the log once one more poll has been answered with a
Answered(l, a) ==
    LET n == l.polls + 1
    IN  [l EXCEPT
            !.polls = n,
            !.confirmedAt =
                IF @ = 0 /\ a.ok /\ a.status = 200 /\ a.confirmed THEN n ELSE @,
            !.errorAt = IF @ = 0 /\ ~a.ok THEN n ELSE @,
            !.forbiddenAt = IF @ = 0 /\ a.ok /\ a.status = 403 THEN n ELSE @]

\* an entry that tests the retry count before the test mode
registryEntry_RetryFirst(test, r) ==
    IF r > registryRetryLimit THEN "false"
    ELSE IF test THEN "true"
    ELSE "poll"

\* an entry that gives up at the limit instead of past it
registryEntry_GivesUpAtLimit(test, r) ==
    IF test THEN "true"
    ELSE IF r >= registryRetryLimit THEN "false"
    ELSE "poll"

\* registry.js:350-354, what a call of confirmTokenRegistrationOnWarehouse
\* does before its try block: return true, return false, or go on to poll
registryEntry(test, r) ==
    IF test THEN "true"
    ELSE IF r > registryRetryLimit THEN "false"
    ELSE "poll"

\* an entry that gives up at the limit instead of past it
tokenEntry_GivesUpAtLimit(r) == IF r >= tokenRetryLimit THEN "false" ELSE "poll"

\* token-driver.js:67-69, what a call of
\* waitForTokenizationTransactionConfirmation does before its try block
tokenEntry(r) == IF r > tokenRetryLimit THEN "false" ELSE "poll"

\* a test that takes the flag the wrong way round
registryConfirmed_Inverted(a) == ~a.confirmed

\* registry.js:370, `response.body?.confirmed`
registryConfirmed(a) == a.confirmed

\* token-driver.js:80, `response.body?.record?.confirmed`
tokenConfirmed(a) == a.confirmed

\* registry.js:374-386, the catch block: logs and returns false
registryCatch(a) == "false"

\* a catch block that throws the error on
tokenCatch_Rethrows(a) == "throw"

\* token-driver.js:89-94, the catch block: logs and returns false
tokenCatch(a) == "false"

\* ------------------------------------------ handleApiRequestWithRetries' tests
\* the errors requestFn() may throw and the values it may return
Errors == {"e1", "e2"}
Values == {"v1", "v2"}

\* what a call has done: the calls of requestFn, the sleeps, the errors of
\* the failed attempts in order, the error thrown to the caller and the value
\* returned to it
NewRetryLog ==
    [invocations |-> 0, sleeps |-> 0, failures |-> <<>>,
     raised |-> "none", returned |-> "none"]

\* api-utils.js:12, `while (retries < maxRetries)`
LoopGoesOn(r, n) == r < n

\* a test that gives up one failure early
GivesUp_Early(r, n) == r + 1 >= n

\* api-utils.js:17, `if (retries >= maxRetries)`
GivesUp(r, n) == r >= n

\* a throw of the first error the call has seen
Thrown_First(failures) == failures[1]

\* api-utils.js:15-18, `throw error`: the error this catch clause caught
Thrown(failures) == failures[Len(failures)]

\* a call that does not look at the environment on entry
ReturnsAtOnce_Never(env) == FALSE

\* registry.js:432-434, `if (process.env.NODE_ENV === "test") return;`
ReturnsAtOnce(env) == env

\* --------------------------------------------------------------- initial state
InitFor(srcs, iters) ==
    /\ testMode \in BOOLEAN
    /\ universe = [sources |-> srcs, iterations |-> iters]
    /\ op = [t \in Tasks |-> "none"]
    /\ opc = [t \in Tasks |-> "none"]
    /\ ret = [t \in Tasks |-> "none"]
    /\ syncs = [t \in Tasks |-> <<>>]
    /\ wrote = [t \in Tasks |-> FALSE]
    /\ mutexLocked = FALSE
    /\ waiters = {}
    /\ sources = InitialSources
    /\ pc = [t \in Tasks |-> "idle"]
    /\ options = [t \in Tasks |-> NoOptions]
    /\ isFirstSyncAfterFailure = [t \in Tasks |-> FALSE]
    /\ homeOrg = [t \in Tasks |-> Null]
    /\ onChainRegistryRoot = [t \in Tasks |-> NoRoot]
    /\ onChainOrgRoot = [t \in Tasks |-> NoRoot]
    /\ outcome = [t \in Tasks |-> "none"]
    /\ arrival = [t \in Tasks |-> [locked |-> FALSE, completed |-> 0]]
    /\ log = [t \in Tasks |-> NewLog]
    /\ runs = [started |-> 0, completed |-> 0, converged |-> 0,
               iterations |-> 0, calls |-> 0]
    /\ watching = "none"
    /\ wpc = "idle"
    /\ retry = 0
    /\ result = "none"
    /\ wlog = NewWatchLog
    /\ rpc = "idle"
    /\ retries = 0
    /\ maxRetries = 0
    /\ rlog = NewRetryLog


\* ------------------------------------------------- waitForRegistryDataSync
Finished(t) == pc[t] \in {"idle", "returned", "thrown"}

\* a release that leaves the pending waitForUnlock() promises pending
Release_KeepsWaiters(exit) ==
    /\ mutexLocked' = HeldAfter(exit)
    /\ waiters' = waiters

\* releaseMutex(): the mutex is free again and every pending
\* waitForUnlock() promise resolves
Release(exit) ==
    /\ mutexLocked' = HeldAfter(exit)
    /\ waiters' = IF HeldAfter(exit) THEN waiters ELSE {}

\* lines 431-436: the call up to its first await.  In test mode it returns at
\* once; otherwise it awaits mutex.waitForUnlock(), whose promise is pending
\* while the mutex is held and resolved otherwise.
BeginSync(t, o) ==
    /\ options' = [options EXCEPT ![t] = o]
    /\ log' = [log EXCEPT ![t] = NewLog]
    /\ arrival' = [arrival EXCEPT
                      ![t] = [locked |-> isLocked, completed |-> runs.completed]]
    /\ isFirstSyncAfterFailure' = [isFirstSyncAfterFailure EXCEPT ![t] = FALSE]
    /\ homeOrg' = [homeOrg EXCEPT ![t] = Null]
    /\ onChainRegistryRoot' = [onChainRegistryRoot EXCEPT ![t] = NoRoot]
    /\ onChainOrgRoot' = [onChainOrgRoot EXCEPT ![t] = NoRoot]
    /\ runs' = [runs EXCEPT !.calls = @ + 1]
    /\ IF ReturnsAtOnce(testMode)
       THEN /\ pc' = [pc EXCEPT ![t] = "returned"]
            /\ outcome' = [outcome EXCEPT ![t] = "testMode"]
            /\ waiters' = waiters
       ELSE /\ pc' = [pc EXCEPT ![t] = "waitForUnlock"]
            /\ outcome' = [outcome EXCEPT ![t] = "pending"]
            /\ waiters' = IF isLocked THEN waiters \cup {t} ELSE waiters
    /\ UNCHANGED <<testMode, universe, retryVars, watchVars, mutexLocked, sources>>

\* the task is between operations
Free(t) ==
    \/ op[t] = "none"
    \/ op[t] = "waitForRegistryDataSync" /\ Finished(t)
    \/ opc[t] = "done"

\* a direct call of waitForRegistryDataSync(options)
CallSync(t) ==
    /\ Free(t)
    /\ runs.calls < MaxCalls
    /\ \E o \in OptionValues : BeginSync(t, o)
    /\ op' = [op EXCEPT ![t] = "waitForRegistryDataSync"]
    /\ opc' = [opc EXCEPT ![t] = "none"]
    /\ ret' = [ret EXCEPT ![t] = "none"]
    /\ syncs' = [syncs EXCEPT ![t] = <<>>]
    /\ wrote' = [wrote EXCEPT ![t] = FALSE]

\* lines 436-442: the waitForUnlock() promise has resolved.  isLocked() and
\* acquire() run without an await between them, and acquire() takes a free
\* mutex before it returns its promise.
WaitForUnlockResolved(t) ==
    /\ pc[t] = "waitForUnlock"
    /\ t \notin waiters
    /\ isFirstSyncAfterFailure' = [isFirstSyncAfterFailure EXCEPT ![t] = FALSE]
    /\ IF ~isLocked
       THEN /\ mutexLocked' = TRUE
            /\ pc' = [pc EXCEPT ![t] = "acquire"]
            /\ outcome' = outcome
       ELSE /\ mutexLocked' = mutexLocked
            /\ pc' = [pc EXCEPT ![t] = "returned"]
            /\ outcome' = [outcome EXCEPT ![t] = "skipped"]
    /\ UNCHANGED <<testMode, universe, retryVars, watchVars, opVars, waiters, sources, options, localVars, arrival,
                   log, runs>>

\* lines 450-461: the sleep is over; the iteration asks for the home
\* organisation.  The sources are in some state for this iteration.
Poll(t) ==
    /\ pc[t] = "waitFor"
    /\ \E s \in SourcesOf(universe.sources) :
          /\ sources' = s
          /\ log' = [log EXCEPT ![t] = Shown(log[t], s)]
    /\ pc' = [pc EXCEPT ![t] = "getHomeOrg"]
    /\ homeOrg' = [homeOrg EXCEPT ![t] = Null]
    /\ onChainRegistryRoot' = [onChainRegistryRoot EXCEPT ![t] = NoRoot]
    /\ onChainOrgRoot' = [onChainOrgRoot EXCEPT ![t] = NoRoot]
    /\ UNCHANGED <<testMode, universe, retryVars, watchVars, opVars, gateVars, options, isFirstSyncAfterFailure,
                   outcome, arrival, runs>>

\* a `continue` that goes to the next fetch without the sleep
Continue_SkipsSleep(t, l, failure) ==
    /\ l.iterations < universe.iterations
    /\ pc' = [pc EXCEPT ![t] = "getHomeOrg"]
    /\ log' = [log EXCEPT ![t] = [l EXCEPT !.iterations = @ + 1]]
    /\ runs' = [runs EXCEPT !.iterations = @ + 1]
    /\ isFirstSyncAfterFailure' =
          [isFirstSyncAfterFailure EXCEPT ![t] = @ \/ failure]
    /\ UNCHANGED <<gateVars, outcome>>

\* `continue`: the next iteration starts its sleep
Continue(t, l, failure) ==
    /\ l.iterations < universe.iterations
    /\ pc' = [pc EXCEPT ![t] = "waitFor"]
    /\ log' = [log EXCEPT ![t] = [l EXCEPT !.iterations = @ + 1]]
    /\ runs' = [runs EXCEPT !.iterations = @ + 1]
    /\ isFirstSyncAfterFailure' =
          [isFirstSyncAfterFailure EXCEPT ![t] = @ \/ failure]
    /\ UNCHANGED <<gateVars, outcome>>

\* the try block is left by `break` or by a throw; finally releases the mutex
Leave(t, l, exit, how) ==
    /\ pc' = [pc EXCEPT ![t] = IF exit = "break" THEN "returned" ELSE "thrown"]
    /\ outcome' = [outcome EXCEPT ![t] = how]
    /\ log' = [log EXCEPT ![t] = l]
    /\ runs' = [runs EXCEPT
                   !.completed = @ + 1,
                   !.converged = IF how = "converged" THEN @ + 1 ELSE @]
    /\ Release(exit)
    /\ UNCHANGED isFirstSyncAfterFailure

\* lines 441-450: the acquire() promise has resolved.  In test mode the call
\* returns from inside the try block, through finally; otherwise the run
\* enters the loop and its first iteration starts its sleep.
Acquired(t) ==
    /\ pc[t] = "acquire"
    /\ IF testMode
       THEN Leave(t, log[t], "break", "testMode")
       ELSE /\ pc' = [pc EXCEPT ![t] = "waitFor"]
            /\ log' = [log EXCEPT ![t].iterations = 1]
            /\ runs' = [runs EXCEPT !.started = @ + 1, !.iterations = @ + 1]
            /\ UNCHANGED <<gateVars, isFirstSyncAfterFailure, outcome>>
    /\ UNCHANGED <<testMode, universe, retryVars, watchVars, opVars, sources, options,
                   localVars, arrival>>

\* lines 461-471: getHomeOrg() has answered
HomeOrgAnswered(t) ==
    /\ pc[t] = "getHomeOrg"
    /\ LET found == getHomeOrg(sources.organizations)
           l == [log[t] EXCEPT !.homeFetches = @ + 1]
       IN  /\ homeOrg' = [homeOrg EXCEPT ![t] = found]
           /\ IF found = Null
              THEN Continue(t, [l EXCEPT !.warnings = @ + 1], TRUE)
              ELSE /\ pc' = [pc EXCEPT ![t] = "getRegistryRoot"]
                   /\ log' = [log EXCEPT ![t] = l]
                   /\ UNCHANGED <<gateVars, outcome, runs,
                                  isFirstSyncAfterFailure>>
    /\ UNCHANGED <<testMode, universe, retryVars, watchVars, opVars, sources, options, onChainRegistryRoot,
                   onChainOrgRoot, arrival>>

\* lines 471-506: datalayer.getRoot({ id: homeOrg.registryId }) has answered
RegistryRootAnswered(t) ==
    /\ pc[t] = "getRegistryRoot"
    /\ LET root == sources.registryRoot
           l == [log[t] EXCEPT
                    !.registryFetches = @ + 1,
                    !.rootFetchesWhileAbsent =
                        IF HasHome(sources) THEN @ ELSE @ + 1]
       IN  IF ~root.ok
           THEN /\ Leave(t, l, "throw", "fault")
                /\ UNCHANGED onChainRegistryRoot
           ELSE /\ onChainRegistryRoot' = [onChainRegistryRoot EXCEPT ![t] = root]
                /\ IF ~root.confirmed
                   THEN Continue(t, l, TRUE)
                   ELSE IF ThrowsOnEmptyRegistry(root, Opts(options[t]))
                   THEN Leave(t, l, "throw", "emptyRegistry")
                   ELSE IF RegistryOutOfSync(root, homeOrg[t])
                   THEN Continue(t, l, TRUE)
                   ELSE /\ pc' = [pc EXCEPT ![t] = "getOrgRoot"]
                        /\ log' = [log EXCEPT ![t] = l]
                        /\ UNCHANGED <<gateVars, outcome, runs,
                                       isFirstSyncAfterFailure>>
    /\ UNCHANGED <<testMode, universe, retryVars, watchVars, opVars, sources, options, homeOrg, onChainOrgRoot, arrival>>

\* lines 506-541: datalayer.getRoot({ id: homeOrg.orgUid }) has answered
OrgRootAnswered(t) ==
    /\ pc[t] = "getOrgRoot"
    /\ LET root == sources.orgRoot
           l == [log[t] EXCEPT
                    !.orgFetches = @ + 1,
                    !.rootFetchesWhileAbsent =
                        IF HasHome(sources) THEN @ ELSE @ + 1]
       IN  IF ~root.ok
           THEN /\ Leave(t, l, "throw", "fault")
                /\ UNCHANGED onChainOrgRoot
           ELSE /\ onChainOrgRoot' = [onChainOrgRoot EXCEPT ![t] = root]
                /\ IF ~root.confirmed
                   THEN Continue(t, l, FALSE)
                   ELSE IF OrgOutOfSync(root, homeOrg[t])
                   THEN Continue(t, l, TRUE)
                   ELSE Leave(t,
                              [l EXCEPT !.notices =
                                  IF isFirstSyncAfterFailure[t] THEN @ + 1 ELSE @],
                              "break", "converged")
    /\ UNCHANGED <<testMode, universe, retryVars, watchVars, opVars, sources, options, homeOrg, onChainRegistryRoot,
                   arrival>>

\* ----------------------------------------------------- the write operations
syncVars == <<pc, options, isFirstSyncAfterFailure, homeOrg,
              onChainRegistryRoot, onChainOrgRoot, outcome, arrival, log, runs>>

\* the answers to POST /v1/organizations/metadata; status 0 is a request that
\* failed without a response
AcceptedMessage == "Home org currently being updated, will be completed soon."

MetadataResponses ==
    {[status |-> 0, message |-> ""], [status |-> 403, message |-> ""],
     [status |-> 200, message |-> "other"],
     [status |-> 200, message |-> AcceptedMessage]}

\* a call of an operation starts: nothing is left of the task's last one
StartOp(t, name, at) ==
    /\ Free(t)
    /\ runs.calls < MaxCalls
    /\ op' = [op EXCEPT ![t] = name]
    /\ opc' = [opc EXCEPT ![t] = at]
    /\ ret' = [ret EXCEPT ![t] = "pending"]
    /\ syncs' = [syncs EXCEPT ![t] = <<>>]
    /\ wrote' = [wrote EXCEPT ![t] = FALSE]
    /\ pc' = [pc EXCEPT ![t] = "idle"]
    /\ outcome' = [outcome EXCEPT ![t] = "none"]
    /\ UNCHANGED <<testMode, universe, retryVars, watchVars, gateVars, sources, options,
                   isFirstSyncAfterFailure, localVars, arrival, log, runs>>

\* setLastProcessedHeight(height), line 289-291: up to the first wallet wait
CallSetLastProcessedHeight(t) == StartOp(t, "setLastProcessedHeight", "wallet1")

\* commitStagingData(), lines 40-45: the POST is sent at once
CallCommitStagingData(t) == StartOp(t, "commitStagingData", "commitPost")

\* wallet.waitForAllTransactionsToConfirm() and the 5 s timer after it are
\* over (lines 48-50, 291-293, 320-322): waitForRegistryDataSync() is called
WalletConfirmed(t) ==
    /\ opc[t] \in {"wallet1", "wallet2", "wallet"}
    /\ runs.calls < MaxCalls
    /\ BeginSync(t, NoOptions)
    /\ opc' = [opc EXCEPT ![t] = CASE opc[t] = "wallet1" -> "sync1"
                                    [] opc[t] = "wallet2" -> "sync2"
                                    [] OTHER -> "sync"]
    /\ UNCHANGED <<op, ret, syncs, wrote>>

\* the awaited waitForRegistryDataSync() has settled: a throw is caught and
\* the operation returns null; otherwise setLastProcessedHeight sends its
\* write after the first wait, and both operations return after the last
SyncSettled(t) ==
    /\ opc[t] \in {"sync1", "sync2", "sync"}
    /\ pc[t] \in {"returned", "thrown"}
    /\ syncs' = [syncs EXCEPT ![t] = Append(@, outcome[t])]
    /\ IF pc[t] = "thrown"
       THEN /\ opc' = [opc EXCEPT ![t] = "done"]
            /\ ret' = [ret EXCEPT ![t] = "null"]
            /\ wrote' = wrote
       ELSE IF opc[t] = "sync1"
       THEN /\ opc' = [opc EXCEPT ![t] = "post"]
            /\ wrote' = [wrote EXCEPT ![t] = TRUE]
            /\ ret' = ret
       ELSE /\ opc' = [opc EXCEPT ![t] = "done"]
            /\ ret' = [ret EXCEPT ![t] = IF opc[t] = "sync2" THEN "data" ELSE "body"]
            /\ wrote' = wrote
    /\ UNCHANGED <<testMode, universe, retryVars, watchVars, op, gateVars, sources, syncVars>>

\* lines 296-320: POST /v1/organizations/metadata has answered
MetadataAnswered(t) ==
    /\ opc[t] = "post"
    /\ \E response \in MetadataResponses :
          IF response.status \in {0, 403}
          THEN /\ opc' = [opc EXCEPT ![t] = "done"]
               /\ ret' = [ret EXCEPT ![t] = "null"]
          ELSE IF response.status # 200 \/ response.message # AcceptedMessage
          THEN /\ opc' = [opc EXCEPT ![t] = "done"]
               /\ ret' = [ret EXCEPT ![t] = "undefined"]
          ELSE /\ opc' = [opc EXCEPT ![t] = "wallet2"]
               /\ ret' = ret
    /\ UNCHANGED <<testMode, universe, retryVars, watchVars, op, syncs, wrote, gateVars, sources,
                   syncVars>>

\* lines 43-47: POST /v1/staging/commit has answered or failed
CommitAnswered(t) ==
    /\ opc[t] = "commitPost"
    /\ \E ok \in BOOLEAN :
          IF ok
          THEN /\ opc' = [opc EXCEPT ![t] = "wallet"]
               /\ wrote' = [wrote EXCEPT ![t] = TRUE]
               /\ ret' = ret
          ELSE /\ opc' = [opc EXCEPT ![t] = "done"]
               /\ ret' = [ret EXCEPT ![t] = "null"]
               /\ wrote' = wrote
    /\ UNCHANGED <<testMode, universe, retryVars, watchVars, op, syncs, gateVars, sources, syncVars>>

\* ------------------------------------- confirmTokenRegistrationOnWarehouse
\* the watcher's call has ended with the value or the throw c
Settle(c) ==
    /\ wpc' = IF c = "throw" THEN "thrown" ELSE "returned"
    /\ result' = IF c = "throw" THEN "none" ELSE c

\* a call confirmTokenRegistrationOnWarehouse(r), from outside or from line
\* 373, up to its first await; what the innermost call returns is returned
\* by every call around it
EnterRegistry(r) ==
    /\ retry' = r
    /\ LET e == registryEntry(testMode, r)
       IN  IF e = "poll"
           THEN wpc' = "waitFor" /\ result' = "none"
           ELSE Settle(e)

CallConfirmTokenRegistrationOnWarehouse ==
    /\ wpc \in {"idle", "returned", "thrown"}
    /\ watching' = "confirmTokenRegistrationOnWarehouse"
    /\ \E r \in RetryArgs :
          /\ EnterRegistry(r)
          /\ wlog' = [NewWatchLog EXCEPT !.retry0 = r]
    /\ UNCHANGED <<testMode, universe, retryVars, opVars, gateVars, sources, syncVars>>

\* line 357-362: the first sleep is over, the request is sent
RegistryWaited ==
    /\ watching = "confirmTokenRegistrationOnWarehouse"
    /\ wpc = "waitFor"
    /\ wpc' = "get"
    /\ wlog' = [wlog EXCEPT !.sleeps = @ + 1]
    /\ UNCHANGED <<testMode, universe, retryVars, opVars, gateVars, sources, syncVars,
                   watching, retry, result>>

\* lines 360-372 and 374-386: the request is answered
RegistryPollAnswered ==
    /\ watching = "confirmTokenRegistrationOnWarehouse"
    /\ wpc = "get"
    /\ \E a \in PollAnswers :
          /\ wlog' = Answered(wlog, a)
          /\ IF ~a.ok \/ a.status = 403
             THEN Settle(registryCatch(a))
             ELSE IF registryConfirmed(a)
             THEN Settle("true")
             ELSE wpc' = "waitForAgain" /\ result' = result
    /\ UNCHANGED <<testMode, universe, retryVars, opVars, gateVars, sources, syncVars,
                   watching, retry>>

\* lines 372-373: the second sleep is over, the function calls itself
RegistryWaitedAgain ==
    /\ watching = "confirmTokenRegistrationOnWarehouse"
    /\ wpc = "waitForAgain"
    /\ wlog' = [wlog EXCEPT !.sleeps = @ + 1]
    /\ EnterRegistry(retry + 1)
    /\ UNCHANGED <<testMode, universe, retryVars, opVars, gateVars, sources, syncVars,
                   watching>>

\* ------------------------------ waitForTokenizationTransactionConfirmation
\* a call waitForTokenizationTransactionConfirmation(transactionId, r), from
\* outside or from line 85, up to its first await
EnterToken(r) ==
    /\ retry' = r
    /\ LET e == tokenEntry(r)
       IN  IF e = "poll"
           THEN wpc' = "waitFor" /\ result' = "none"
           ELSE Settle(e)

CallWaitForTokenizationTransactionConfirmation ==
    /\ wpc \in {"idle", "returned", "thrown"}
    /\ watching' = "waitForTokenizationTransactionConfirmation"
    /\ \E r \in RetryArgs :
          /\ EnterToken(r)
          /\ wlog' = [NewWatchLog EXCEPT !.retry0 = r]
    /\ UNCHANGED <<testMode, universe, retryVars, opVars, gateVars, sources, syncVars>>

\* lines 72-78: the first sleep is over, the request is sent
TokenWaited ==
    /\ watching = "waitForTokenizationTransactionConfirmation"
    /\ wpc = "waitFor"
    /\ wpc' = "get"
    /\ wlog' = [wlog EXCEPT !.sleeps = @ + 1]
    /\ UNCHANGED <<testMode, universe, retryVars, opVars, gateVars, sources, syncVars,
                   watching, retry, result>>

\* lines 76-84 and 89-94: the request is answered; the status of a response
\* is not looked at
TokenPollAnswered ==
    /\ watching = "waitForTokenizationTransactionConfirmation"
    /\ wpc = "get"
    /\ \E a \in PollAnswers :
          /\ wlog' = Answered(wlog, a)
          /\ IF ~a.ok
             THEN Settle(tokenCatch(a))
             ELSE IF tokenConfirmed(a)
             THEN Settle("true")
             ELSE wpc' = "waitForAgain" /\ result' = result
    /\ UNCHANGED <<testMode, universe, retryVars, opVars, gateVars, sources, syncVars,
                   watching, retry>>

\* lines 84-88: the second sleep is over, the function calls itself
TokenWaitedAgain ==
    /\ watching = "waitForTokenizationTransactionConfirmation"
    /\ wpc = "waitForAgain"
    /\ wlog' = [wlog EXCEPT !.sleeps = @ + 1]
    /\ EnterToken(retry + 1)
    /\ UNCHANGED <<testMode, universe, retryVars, opVars, gateVars, sources, syncVars,
                   watching>>

\* ---------------------------------------------- handleApiRequestWithRetries
\* lines 12-14: the loop test, and requestFn() is called when it holds; when
\* it does not the function ends without a return statement
LoopTop(r, n, l) ==
    IF LoopGoesOn(r, n)
    THEN /\ rpc' = "requestFn"
         /\ rlog' = [l EXCEPT !.invocations = @ + 1]
    ELSE /\ rpc' = "returned"
         /\ rlog' = [l EXCEPT !.returned = "undefined"]

\* lines 10-14: a call handleApiRequestWithRetries(requestFn, n)
CallHandleApiRequestWithRetries ==
    /\ rpc \in {"idle", "returned", "thrown"}
    /\ \E n \in 0..MaxBudget :
          /\ maxRetries' = n
          /\ LoopTop(0, n, NewRetryLog)
    /\ retries' = 0
    /\ UNCHANGED <<testMode, universe, watchVars, opVars, gateVars, sources,
                   syncVars>>

\* lines 14-20: the promise of requestFn() has settled, with a value or
\* with an error
RequestSettled ==
    /\ rpc = "requestFn"
    /\ \/ \E v \in Values :
             /\ rpc' = "returned"
             /\ rlog' = [rlog EXCEPT !.returned = v]
             /\ retries' = retries
       \/ \E e \in Errors :
             LET failures == Append(rlog.failures, e)
             IN  /\ retries' = retries + 1
                 /\ IF GivesUp(retries + 1, maxRetries)
                    THEN /\ rpc' = "thrown"
                         /\ rlog' = [rlog EXCEPT !.failures = failures,
                                                 !.raised = Thrown(failures)]
                    ELSE /\ rpc' = "waitFor"
                         /\ rlog' = [rlog EXCEPT !.failures = failures]
    /\ UNCHANGED <<testMode, universe, watchVars, opVars, gateVars, sources,
                   syncVars, maxRetries>>

\* lines 20 and 12-14: the sleep is over and the loop goes round
RetryWaited ==
    /\ rpc = "waitFor"
    /\ LoopTop(retries, maxRetries, [rlog EXCEPT !.sleeps = @ + 1])
    /\ UNCHANGED <<testMode, universe, watchVars, opVars, gateVars, sources,
                   syncVars, retries, maxRetries>>

\* process.env.NODE_ENV is ambient state of the process: it may be set
\* between any two steps of the calls
SetNodeEnv ==
    /\ testMode' = ~testMode
    /\ UNCHANGED <<universe, retryVars, watchVars, opVars, gateVars, sources, syncVars>>

\* the steps of waitForRegistryDataSync
SyncStep(t) ==
    \/ WaitForUnlockResolved(t)
    \/ Acquired(t)
    \/ Poll(t)
    \/ HomeOrgAnswered(t)
    \/ RegistryRootAnswered(t)
    \/ OrgRootAnswered(t)

\* concurrent callers of the gate
Init == InitFor("gate", GateIter)

Next ==
    \E t \in Tasks :
        \/ CallSync(t)
        \/ SyncStep(t)

Spec == Init /\ [][Next]_vars

\* concurrent write operations
InitWrites == InitFor("writes", WriteIter)

NextWrites ==
    \E t \in Tasks :
        \/ CallSetLastProcessedHeight(t)
        \/ CallCommitStagingData(t)
        \/ WalletConfirmed(t)
        \/ SyncSettled(t)
        \/ MetadataAnswered(t)
        \/ CommitAnswered(t)
        \/ SyncStep(t)

SpecWrites == InitWrites /\ [][NextWrites]_vars

\* one call chain, every source state
InitWatcher == InitFor("watcher", MaxIter)

NextWatcher == CallSync(1) \/ SyncStep(1)

SpecWatcher == InitWatcher /\ [][NextWatcher]_vars

\* concurrent callers of the gate while NODE_ENV changes
InitEnv == InitFor("env", GateIter)

NextEnv ==
    \/ SetNodeEnv
    \/ \E t \in Tasks :
          \/ CallSync(t)
          \/ SyncStep(t)

SpecEnv == InitEnv /\ [][NextEnv]_vars

\* the two confirmation watchers, one call at a time
InitConfirm == InitFor("confirm", GateIter)

NextConfirm ==
    \/ CallConfirmTokenRegistrationOnWarehouse
    \/ RegistryWaited
    \/ RegistryPollAnswered
    \/ RegistryWaitedAgain
    \/ CallWaitForTokenizationTransactionConfirmation
    \/ TokenWaited
    \/ TokenPollAnswered
    \/ TokenWaitedAgain

SpecConfirm == InitConfirm /\ [][NextConfirm]_vars


\* concurrent callers of the gate, each resumed whenever the event it awaits
\* (a timer, a response, a promise of the mutex) has happened
InitLive == InitFor("live", LiveIter)

\* the callers whose progress is followed: one can own a run while the other
\* waits on the mutex
LiveCallers == {1, 2}

NextLive ==
    \E t \in LiveCallers :
        \/ CallSync(t)
        \/ SyncStep(t)

SpecLive ==
    InitLive /\ [][NextLive]_vars /\ \A t \in LiveCallers : WF_vars(SyncStep(t))

\* handleApiRequestWithRetries, one call at a time
InitRetry == InitFor("retry", GateIter)

NextRetry ==
    \/ CallHandleApiRequestWithRetries
    \/ RequestSettled
    \/ RetryWaited

SpecRetry == InitRetry /\ [][NextRetry]_vars


\* ------------------------------------------------------------ properties
\* the task holds the mutex: it has acquired it and not yet left the try block
Holding(t) ==
    pc[t] \in {"acquire", "waitFor", "getHomeOrg", "getRegistryRoot", "getOrgRoot"}

\* the task is executing the LedgerSyncWatcher loop
InRun(t) == pc[t] \in {"waitFor", "getHomeOrg", "getRegistryRoot", "getOrgRoot"}

\* the task's call passed throwOnEmptyRegistry: true
WantsThrow(t) ==
    "throwOnEmptyRegistry" \in DOMAIN options[t] /\ options[t].throwOnEmptyRegistry

\* C1: outside test mode at most one caller holds the mutex, and so at most
\* one executes the LedgerSyncWatcher loop, in every reachable state.
C1_MutualExclusion ==
    ~testMode =>
        /\ \A t, u \in Tasks : Holding(t) /\ Holding(u) => t = u
        /\ \A t \in Tasks : Holding(t) => mutexLocked

\* one caller is in the loop while another has called and waits on the gate
C1_Witness ==
    \E t, u \in Tasks :
        /\ t # u
        /\ InRun(t)
        /\ pc[u] = "waitForUnlock" /\ u \in waiters

\* Every call made so far came in before any run had completed, no task has
\* called twice, and each run was shown converged sources in its first
\* iteration, without the fatal empty-registry condition.
OneShot ==
    /\ ~testMode
    /\ runs.calls = Cardinality({t \in Tasks : pc[t] # "idle"})
    /\ \A t \in Tasks :
          /\ pc[t] # "idle" => arrival[t].completed = 0
          /\ log[t].sleeps >= 1 =>
                log[t].convergedAt = 1 /\ ~(WantsThrow(t) /\ log[t].emptyAt = 1)

\* C2: N concurrent callers whose watcher converges in one execution: the loop
\* body runs once in total and no caller returns before that execution is over.
C2_OneExecutionForAll ==
    OneShot =>
        /\ runs.iterations <= 1
        /\ \A t \in Tasks : pc[t] = "returned" => runs.completed >= 1
        /\ (\A t \in Tasks : pc[t] = "returned") => runs.iterations = 1

\* C3: a caller that arrived while a run was in flight waits for that run to
\* complete and then returns, without acquiring the gate or running itself.
C3_JoinerReturnsWithoutRunning ==
    ~testMode =>
        \A t \in Tasks :
            arrival[t].locked /\ pc[t] # "idle" =>
                /\ pc[t] \in {"waitForUnlock", "returned"}
                /\ pc[t] = "returned" => runs.completed > arrival[t].completed

\* C4: the gate is held only while its owner is between acquire and the end of
\* its try block: once the owner has returned or thrown, by convergence, by
\* the empty-registry error or by a ledger-node fault, the gate is idle, and
\* no caller is left waiting on an idle gate.
C4_ReleasedOnEveryExit ==
    /\ mutexLocked => \E t \in Tasks : Holding(t)
    /\ \A t \in Tasks : t \in waiters => mutexLocked

\* a run ended by a throw, and a caller that arrived afterwards is running
C4_Witness ==
    \E t, u \in Tasks :
        /\ pc[t] = "thrown" /\ outcome[t] \in {"fault", "emptyRegistry"}
        /\ InRun(u) /\ arrival[u].completed >= 1 /\ ~arrival[u].locked

\* C5: outside test mode setLastProcessedHeight sends its write only after a
\* sync wait of its own observed convergence, and returns the data only after
\* a second one did; commitStagingData returns the body only after one did.
C5_WritesWaitForAgreement ==
    ~testMode =>
        \A t \in Tasks :
            /\ op[t] = "setLastProcessedHeight" /\ wrote[t] =>
                  syncs[t][1] = "converged"
            /\ ret[t] = "data" =>
                  Len(syncs[t]) = 2 /\ syncs[t][2] = "converged"
            /\ ret[t] = "body" =>
                  Len(syncs[t]) = 1 /\ syncs[t][1] = "converged"


\* the iteration the run began last is over: the run has ended, or its next
\* iteration is in its sleep and has sampled nothing yet
AtIterationEnd(t) == pc[t] \in {"waitFor", "returned", "thrown"}

\* C6: a run leaves its loop successfully only in an iteration whose own
\* samples show a home organisation, a confirmed registry root with the hash
\* homeOrg.registryHash and a confirmed organisation root with the hash
\* homeOrg.orgHash; a run ends in no other way than that or a thrown error.
C6_SuccessPostCondition ==
    \A t \in Tasks :
        /\ outcome[t] = "converged" =>
              /\ pc[t] = "returned"
              /\ homeOrg[t] # Null
              /\ homeOrg[t] = HomeOf(sources) /\ HasHome(sources)
              /\ onChainRegistryRoot[t] = sources.registryRoot
              /\ onChainOrgRoot[t] = sources.orgRoot
              /\ onChainRegistryRoot[t].ok /\ onChainRegistryRoot[t].confirmed
              /\ onChainRegistryRoot[t].hash = homeOrg[t].registryHash
              /\ onChainOrgRoot[t].ok /\ onChainOrgRoot[t].confirmed
              /\ onChainOrgRoot[t].hash = homeOrg[t].orgHash
              /\ log[t].sleeps = log[t].iterations
        /\ pc[t] = "returned" /\ log[t].iterations >= 1 => outcome[t] = "converged"
        /\ pc[t] = "thrown" => outcome[t] \in {"fault", "emptyRegistry"}

\* a run has succeeded after an iteration that did not
C6_Witness ==
    \E t \in Tasks : outcome[t] = "converged" /\ log[t].iterations >= 2

\* C7: with throwOnEmptyRegistry true, a first iteration that samples a home
\* organisation and a confirmed registry root with the empty-tree hash ends
\* the run with the empty-registry error in that iteration, with no fetch of
\* the organisation root, whether or not the hash equals homeOrg.registryHash.
C7_EmptyRegistryThrowsFirst ==
    \A t \in Tasks :
        WantsThrow(t) /\ log[t].emptyAt = 1 /\ log[t].registryFetches >= 1 =>
            /\ pc[t] = "thrown" /\ outcome[t] = "emptyRegistry"
            /\ log[t].iterations = 1
            /\ log[t].orgFetches = 0

\* the error was raised on a registry whose recorded hash is not the sentinel:
\* a comparison made first would have sent the run back to polling
C7_Witness ==
    \E t \in Tasks :
        /\ outcome[t] = "emptyRegistry" /\ log[t].iterations = 1
        /\ homeOrg[t].registryHash # emptySingletonHash

\* C8 as stated: home organisation present, both roots confirmed and the
\* registry hash matching in every iteration; the run succeeds in the first
\* iteration whose organisation hash matches, no earlier and no later.
C8_AsStated ==
    \A t \in Tasks :
        log[t].tame /\ log[t].sleeps >= 1 =>
            /\ outcome[t] = "converged" => log[t].iterations = log[t].convergedAt
            /\ log[t].convergedAt > 0 /\ AtIterationEnd(t) =>
                  outcome[t] = "converged" /\ log[t].iterations = log[t].convergedAt
            /\ log[t].convergedAt = 0 => pc[t] \notin {"returned", "thrown"}

\* C8, amended: as C8_AsStated when the caller did not pass
\* throwOnEmptyRegistry: true or no sampled registry root has the empty-tree
\* hash; otherwise the run throws the empty-registry error in the first
\* iteration whose registry root has that hash.
C8_OrgMismatchThenMatch ==
    \A t \in Tasks :
        log[t].tame /\ log[t].sleeps >= 1 =>
            IF WantsThrow(t) /\ log[t].emptyAt > 0
            THEN AtIterationEnd(t) =>
                    /\ pc[t] = "thrown" /\ outcome[t] = "emptyRegistry"
                    /\ log[t].iterations = log[t].emptyAt
            ELSE /\ outcome[t] = "converged" =>
                       log[t].iterations = log[t].convergedAt
                 /\ log[t].convergedAt > 0 /\ AtIterationEnd(t) =>
                       /\ outcome[t] = "converged"
                       /\ log[t].iterations = log[t].convergedAt
                 /\ log[t].convergedAt = 0 => pc[t] \notin {"returned", "thrown"}

\* the organisation hash mismatched twice and the run succeeded in iteration 3
C8_Witness ==
    \E t \in Tasks :
        /\ log[t].tame /\ outcome[t] = "converged"
        /\ log[t].iterations = 3 /\ log[t].convergedAt = 3


\* what C9 says of a run whose sources show no home organisation, j times,
\* and then a converged state
AbsentThenConverged(t) ==
    /\ log[t].rootFetchesWhileAbsent = 0
    /\ AtIterationEnd(t) => log[t].warnings = log[t].absent
    /\ log[t].convergedAt = 0 => pc[t] \notin {"returned", "thrown"}
    /\ log[t].convergedAt > 0 /\ AtIterationEnd(t) =>
          /\ pc[t] = "returned" /\ outcome[t] = "converged"
          /\ log[t].iterations = log[t].absent + 1
          /\ log[t].homeFetches = log[t].absent + 1
          /\ log[t].registryFetches = 1 /\ log[t].orgFetches = 1

\* C9 as stated: the registry returns no home organisation (or fails) for the
\* first j polls and a converged one afterwards; the run makes j+1 iterations,
\* warns j times, fetches no root in the first j, does not throw and succeeds.
C9_AsStated ==
    \A t \in Tasks :
        log[t].otherBad = 0 /\ log[t].sleeps >= 1 => AbsentThenConverged(t)

\* C9, amended: as C9_AsStated when the caller did not pass
\* throwOnEmptyRegistry: true or the converged registry root does not have the
\* empty-tree hash; otherwise iteration j+1 throws the empty-registry error,
\* after j warnings and without a fetch of the organisation root.
C9_MissingHomeOrgIsPolled ==
    \A t \in Tasks :
        log[t].otherBad = 0 /\ log[t].sleeps >= 1 =>
            IF WantsThrow(t) /\ log[t].emptyAt > 0
            THEN /\ log[t].rootFetchesWhileAbsent = 0
                 /\ AtIterationEnd(t) =>
                       /\ pc[t] = "thrown" /\ outcome[t] = "emptyRegistry"
                       /\ log[t].iterations = log[t].absent + 1
                       /\ log[t].warnings = log[t].absent
                       /\ log[t].registryFetches = 1 /\ log[t].orgFetches = 0
            ELSE AbsentThenConverged(t)

\* no home organisation for two polls, converged on the third: 3 iterations,
\* 2 warnings
C9_Witness ==
    \E t \in Tasks :
        /\ log[t].otherBad = 0 /\ log[t].absent = 2
        /\ outcome[t] = "converged"
        /\ log[t].iterations = 3 /\ log[t].warnings = 2

\* C10: a run that succeeds after at least one iteration that went back to
\* polling emits the recovery notice once, in the succeeding iteration; a run
\* that succeeds in its first iteration emits none.
C10_RecoveryNotice ==
    \A t \in Tasks :
        /\ outcome[t] = "converged" =>
              log[t].notices = IF log[t].iterations > 1 THEN 1 ELSE 0
        /\ outcome[t] # "converged" => log[t].notices = 0

\* C11 as stated: a call whose first iteration is shown converged sources
\* makes that one iteration with one fetch of the home organisation, of the
\* registry root and of the organisation root, returns successfully without
\* a recovery notice and leaves the mutex free; a second call after it does
\* the same.
C11_AsStated ==
    \A t \in Tasks :
        log[t].sleeps >= 1 /\ log[t].convergedAt = 1 =>
            /\ log[t].iterations = 1
            /\ AtIterationEnd(t) =>
                  /\ pc[t] = "returned" /\ outcome[t] = "converged"
                  /\ log[t].homeFetches = 1
                  /\ log[t].registryFetches = 1 /\ log[t].orgFetches = 1
                  /\ log[t].notices = 0 /\ log[t].warnings = 0
                  /\ ~mutexLocked /\ waiters = {}

\* C11, amended: as C11_AsStated for every call, the first and the ones after
\* it, unless the call passed throwOnEmptyRegistry: true and the converged
\* registry root has the empty-tree hash; such a call throws the
\* empty-registry error in its one iteration, after one fetch of the home
\* organisation and of the registry root and none of the organisation root,
\* and leaves the mutex free as well.
C11_ConvergedCallsAreAlike ==
    \A t \in Tasks :
        log[t].sleeps >= 1 /\ log[t].convergedAt = 1 =>
            /\ log[t].iterations = 1
            /\ AtIterationEnd(t) =>
                  /\ log[t].homeFetches = 1 /\ log[t].registryFetches = 1
                  /\ log[t].notices = 0 /\ log[t].warnings = 0
                  /\ ~mutexLocked /\ waiters = {}
                  /\ IF WantsThrow(t) /\ log[t].emptyAt = 1
                     THEN /\ pc[t] = "thrown" /\ outcome[t] = "emptyRegistry"
                          /\ log[t].orgFetches = 0
                     ELSE /\ pc[t] = "returned" /\ outcome[t] = "converged"
                          /\ log[t].orgFetches = 1

\* two calls, one after the other, have each succeeded in one iteration
C11_Witness ==
    /\ ~testMode
    /\ runs.calls = 2 /\ runs.started = 2 /\ runs.converged = 2
    /\ runs.iterations = 2
    /\ outcome[1] = "converged" /\ log[1].iterations = 1 /\ log[1].notices = 0
    /\ ~mutexLocked

\* C12: a caller that arrived while a run was in flight never has its own
\* throwOnEmptyRegistry applied: it never evaluates the empty-registry test
\* of lines 481-488 with its own options, and so never receives the
\* empty-registry error.
C12_JoinerOptionsNotApplied ==
    ~testMode =>
        \A t \in Tasks :
            arrival[t].locked =>
                /\ log[t].registryFetches = 0
                /\ outcome[t] # "emptyRegistry"

\* a default call of the token-driver watcher that met no transport error
TokenRunWithoutError ==
    /\ watching = "waitForTokenizationTransactionConfirmation"
    /\ wpc # "idle"
    /\ wlog.retry0 = 0 /\ wlog.errorAt = 0

\* what C13 says with n polls as the ceiling
TokenPollsUpTo(n) ==
    TokenRunWithoutError =>
        /\ wlog.polls <= n
        /\ wlog.confirmedAt > 0 =>
              /\ wpc = "returned" /\ result = "true"
              /\ wlog.polls = wlog.confirmedAt
        /\ wpc \in {"returned", "thrown"} /\ wlog.confirmedAt = 0 =>
              /\ wpc = "returned" /\ result = "false"
              /\ wlog.polls = n

RegistryRunWithoutError ==
    /\ ~testMode
    /\ watching = "confirmTokenRegistrationOnWarehouse"
    /\ wpc # "idle"
    /\ wlog.retry0 = 0 /\ wlog.errorAt = 0 /\ wlog.forbiddenAt = 0

\* C14: outside test mode and without transport errors,
\* confirmTokenRegistrationOnWarehouse returns true at the first poll k <= 60
\* answered confirmed = true, after exactly k polls, and returns true in no
\* other way; 59 unconfirmed polls and a confirmed 60th give true.
C14_RegistryConfirmedAtK ==
    RegistryRunWithoutError =>
        /\ wlog.confirmedAt > 0 /\ wlog.confirmedAt <= registryRetryLimit =>
              /\ wpc = "returned" /\ result = "true"
              /\ wlog.polls = wlog.confirmedAt
        /\ result = "true" => wlog.confirmedAt = wlog.polls

\* 59 unconfirmed polls, then a confirmed 60th
C14_Witness ==
    /\ RegistryRunWithoutError
    /\ result = "true"
    /\ wlog.polls = registryRetryLimit /\ wlog.confirmedAt = registryRetryLimit

\* what C15 says with n polls as the ceiling
RegistryExhaustsAt(n) ==
    RegistryRunWithoutError /\ wlog.confirmedAt = 0 =>
        /\ wlog.polls <= n
        /\ wpc # "thrown"
        /\ wpc = "returned" => result = "false" /\ wlog.polls = n

C16_TransportErrorIsTerminal ==
    wlog.errorAt > 0 =>
        /\ wpc = "returned" /\ result = "false"
        /\ wlog.polls = wlog.errorAt

\* the third poll of the token-driver watcher failed, after two unconfirmed
\* ones
C16_Witness ==
    /\ watching = "waitForTokenizationTransactionConfirmation"
    /\ wlog.errorAt = 3 /\ wlog.polls = 3 /\ wlog.confirmedAt = 0
    /\ result = "false"

\* C17: a poll of confirmTokenRegistrationOnWarehouse answered with status
\* 403 makes the call throw to its caller, with no further poll, instead of
\* returning a boolean.
C17_ForbiddenThrows ==
    watching = "confirmTokenRegistrationOnWarehouse" /\ wlog.forbiddenAt > 0 =>
        /\ wpc = "thrown" /\ result = "none"
        /\ wlog.polls = wlog.forbiddenAt

\* C18: in test mode confirmTokenRegistrationOnWarehouse returns true with
\* no poll and no sleep, whatever its retry argument.
C18_RegistryTestMode ==
    testMode /\ watching = "confirmTokenRegistrationOnWarehouse" =>
        /\ wpc = "returned" /\ result = "true"
        /\ wlog.polls = 0 /\ wlog.sleeps = 0

\* in test mode a call with a retry argument past the limit returned true
C18_Witness ==
    /\ testMode /\ watching = "confirmTokenRegistrationOnWarehouse"
    /\ wlog.retry0 > registryRetryLimit
    /\ wpc = "returned" /\ result = "true"

\* C20: in test mode waitForTokenizationTransactionConfirmation returns true
\* without polling.
C20_TokenTestMode ==
    testMode /\ watching = "waitForTokenizationTransactionConfirmation" =>
        /\ wpc = "returned" /\ result = "true"
        /\ wlog.polls = 0

\* C19: a call of waitForRegistryDataSync made in test mode returns in the
\* same step: it starts no sleep and no fetch, does not wait on, acquire or
\* release the mutex, and leaves the mutex and its waiters as they were, also
\* while another run holds the mutex.
C19_TestModeNoOp ==
    [][testMode /\ runs'.calls = runs.calls + 1 =>
          /\ UNCHANGED <<mutexLocked, waiters, sources>>
          /\ runs' = [runs EXCEPT !.calls = @ + 1]
          /\ \A t \in Tasks :
                /\ pc'[t] \in {pc[t], "returned"}
                /\ pc'[t] # pc[t] => outcome'[t] = "testMode"
                /\ log'[t] \in {log[t], NewLog}
                /\ outcome'[t] # outcome[t] =>
                      /\ pc'[t] = "returned" /\ outcome'[t] = "testMode"
                      /\ log'[t] = NewLog]_vars

\* a call made in test mode has returned while another caller's run holds
\* the mutex
C19_Witness ==
    \E t, u \in Tasks :
        /\ t # u
        /\ testMode
        /\ pc[t] = "returned" /\ outcome[t] = "testMode" /\ arrival[t].locked
        /\ log[t] = NewLog
        /\ InRun(u) /\ mutexLocked

\* C21: with maxRetries = n >= 1 and requestFn failing every time, requestFn
\* is called exactly n times, one call at a time, there are exactly n-1
\* sleeps, none after the last attempt, and the error thrown to the caller is
\* the error of attempt n itself.
C21_RetryExhaustion ==
    maxRetries >= 1 /\ rlog.returned = "none" /\ rpc # "idle" =>
        /\ rlog.invocations <= maxRetries
        /\ Len(rlog.failures) = maxRetries =>
              /\ rpc = "thrown"
              /\ rlog.invocations = maxRetries
              /\ rlog.sleeps = maxRetries - 1
              /\ rlog.raised = rlog.failures[maxRetries]
        /\ rpc = "thrown" => Len(rlog.failures) = maxRetries
        /\ rpc = "requestFn" => rlog.invocations = Len(rlog.failures) + 1
        /\ rpc = "waitFor" => rlog.invocations = Len(rlog.failures)

\* three attempts failed, the last with another error than the first, and
\* that last error was thrown after two sleeps
C21_Witness ==
    /\ maxRetries = 3 /\ rpc = "thrown"
    /\ rlog.invocations = 3 /\ rlog.sleeps = 2
    /\ rlog.failures[1] # rlog.failures[3]
    /\ rlog.raised = rlog.failures[3]

\* C22: with maxRetries = n >= 1, when attempts 1..k-1 fail and attempt
\* k <= n succeeds, requestFn is called exactly k times, there are exactly
\* k-1 sleeps, the value of attempt k is returned, and nothing is called or
\* slept after the success; fewer than n failures never end the call.
C22_SuccessShortCircuits ==
    maxRetries >= 1 /\ rpc # "idle" =>
        /\ rlog.returned # "none" =>
              /\ rpc = "returned"
              /\ rlog.returned \in Values
              /\ rlog.raised = "none"
              /\ rlog.invocations = Len(rlog.failures) + 1
              /\ rlog.invocations <= maxRetries
              /\ rlog.sleeps = Len(rlog.failures)
        /\ Len(rlog.failures) < maxRetries => rpc # "thrown"
        /\ rpc = "returned" => rlog.returned # "none"

\* two attempts failed and the third, the last one allowed, succeeded
C22_Witness ==
    /\ maxRetries = 3 /\ rpc = "returned"
    /\ rlog.returned \in Values
    /\ rlog.invocations = 3 /\ rlog.sleeps = 2 /\ Len(rlog.failures) = 2

\* the sources the last iteration was shown are converged and not fatal
Quiet == Converged(sources) /\ ~EmptyRegistry(sources)

\* no call has ended with a thrown error
NoFatal == \A t \in Tasks : outcome[t] \notin {"fault", "emptyRegistry"}

\* the call of the task has not ended yet
Pending(t) == pc[t] \in {"waitForUnlock", "acquire"} \/ InRun(t)

\* C23: when from some point on every iteration is shown converged sources
\* and no fatal condition is met, every pending call of
\* waitForRegistryDataSync, the owner of the run or a caller waiting on the
\* mutex, eventually returns, and a held mutex eventually becomes free.
C23_EveryCallReturns ==
    (<>[]Quiet /\ []NoFatal) =>
        /\ \A t \in Tasks : Pending(t) ~> pc[t] = "returned"
        /\ mutexLocked ~> ~mutexLocked

\* a run converged in its second iteration and a caller that had arrived
\* while a run held the mutex has returned too, the mutex being free
C23_Witness ==
    \E t, u \in Tasks :
        /\ t # u
        /\ outcome[t] = "converged" /\ log[t].iterations = 2
        /\ arrival[u].locked /\ pc[u] = "returned"
        /\ NoFatal /\ ~mutexLocked

\* C24: every iteration of a run, the first and each one after a `continue`,
\* begins with one sleep that is over before the iteration samples any
\* source: a run in its i-th iteration has slept i-1 times while that
\* iteration sleeps and i times from then on, and it has never fetched more
\* often than it has slept.
C24_SleepEveryIteration ==
    \A t \in Tasks :
        log[t].iterations >= 1 =>
            /\ pc[t] = "waitFor" =>
                  /\ log[t].sleeps = log[t].iterations - 1
                  /\ log[t].homeFetches = log[t].sleeps
            /\ pc[t] # "waitFor" => log[t].sleeps = log[t].iterations
            /\ pc[t] = "getHomeOrg" => log[t].homeFetches = log[t].sleeps - 1
            /\ pc[t] \notin {"waitFor", "getHomeOrg"} =>
                  log[t].homeFetches = log[t].sleeps
            /\ log[t].registryFetches <= log[t].homeFetches
            /\ log[t].orgFetches <= log[t].registryFetches

\* a run went back to polling twice, once for a missing home organisation,
\* and ended after three iterations and three sleeps
C24_Witness ==
    \E t \in Tasks :
        /\ pc[t] = "returned" /\ outcome[t] = "converged"
        /\ log[t].iterations = 3 /\ log[t].sleeps = 3
        /\ log[t].warnings >= 1 /\ log[t].homeFetches = 3

\* C25: in both confirmation watchers each poll is preceded by exactly one
\* sleep and there is no other sleep: a call that has made p polls has slept
\* p times, and p+1 times while the answer of poll p+1 is awaited.
C25_OneSleepPerPoll ==
    watching # "none" =>
        /\ wpc = "get" => wlog.sleeps = wlog.polls + 1
        /\ wpc # "get" => wlog.sleeps = wlog.polls

\* C26: the empty-registry error is thrown only in an iteration that sampled
\* a home organisation and a confirmed registry root with the empty-tree
\* hash, for a caller that passed throwOnEmptyRegistry: true; a caller that
\* did not pass it never gets the error; and with the option an unconfirmed
\* root with the empty-tree hash sends the run back to polling.
C26_EmptyRegistryConditions ==
    \A t \in Tasks :
        /\ outcome[t] = "emptyRegistry" =>
              /\ pc[t] = "thrown"
              /\ WantsThrow(t)
              /\ HasHome(sources) /\ homeOrg[t] # Null
              /\ onChainRegistryRoot[t] = sources.registryRoot
              /\ onChainRegistryRoot[t].ok /\ onChainRegistryRoot[t].confirmed
              /\ onChainRegistryRoot[t].hash = emptySingletonHash
        /\ ~WantsThrow(t) => outcome[t] # "emptyRegistry"
        /\ /\ onChainRegistryRoot[t].ok
           /\ ~onChainRegistryRoot[t].confirmed
           /\ onChainRegistryRoot[t].hash = emptySingletonHash
           => pc[t] = "waitFor" /\ outcome[t] = "pending"

\* a caller with the option was shown an unconfirmed root with the empty-tree
\* hash, went on polling, and got the error once the root was confirmed
C26_Witness ==
    \E t \in Tasks :
        /\ WantsThrow(t)
        /\ outcome[t] = "emptyRegistry"
        /\ log[t].iterations = 2 /\ log[t].registryFetches = 2
        /\ log[t].absent = 0

=============================================================================
